---- MODULE Spec2Model ----
(***************************************************************************)
(* Incremental extraction and coverage tracking of the three extractors    *)
(* (GA4, Google Ads, Search Console): the metadata ledger, write_parquet,  *)
(* the planners get_dates_to_extract / get_months_to_extract and the       *)
(* driver extract_and_save.                                                *)
(*                                                                         *)
(* Dates are day ordinals counted from the extractor's DATA_START_DATE     *)
(* (day 0); a calendar month is MonthLen consecutive days, and the string  *)
(* strftime('%Y%m') of a date is the number of its month.                  *)
(***************************************************************************)
EXTENDS Integers, Sequences, FiniteSets, TLC

\* ------------------------------------------------------------------ bounds
MaxDay == 3
MonthLen == 2
MaxBatch == 2
MaxLookback == 2
RowLimit == 1
MaxRuns == 2
MaxFaults == 1
MaxFileDates == 2
MaxPlanDay == 8
MaxLedgerDay == 3
MaxMessages == 3
MaxLimit == 3
MaxAttempts == 3

\* ------------------------------------------------------- program constants
DATA_START_DATE == 0
n_days == 7
AdsDelay == 3

Days == 0..MaxDay

\* a longer calendar, for the planners' windows of n_days days
PlanDays == 0..MaxPlanDay
Sources == {"ga4", "ads", "sc"}

\* ---------------------------------------------------------------- helpers
Min(a, b) == IF a < b THEN a ELSE b

SeqToSet(s) == {s[k] : k \in 1..Len(s)}

\* Python's `x in list`
InList(x, s) == \E k \in 1..Len(s) : s[k] = x

NoDup(s) == \A j, k \in 1..Len(s) : s[j] = s[k] => j = k

Ascending(s) == \A j, k \in 1..Len(s) : j < k => s[j] < s[k]

\* Optional values (Python None or a value)
None == [some |-> FALSE, v |-> 0]
Some(x) == [some |-> TRUE, v |-> x]

\* ---------------------------------------------------------------- calendar
\* date.strftime('%Y%m')
MonthStr(d) == d \div MonthLen

\* date.replace(day=1) of any date of month m
MonthStart(m) == m * MonthLen

\* next_month - timedelta(days=1)
MonthEnd(m) == MonthStart(m + 1) - 1

\* ------------------------------------------------------------------ ledger
\* the dict returned by _load_metadata when there is no usable file
FreshMetadata(s) ==
    [shape |-> "ledger",
     extracted_dates |-> << >>,
     extracted_months |-> << >>,
     last_full_extraction |-> None,
     last_incremental_update |-> None,
     data_start_date |-> IF s = "sc" THEN None ELSE Some(DATA_START_DATE)]

is_date_extracted_never(md, d) == FALSE

is_date_extracted(md, d) == InList(d, md.extracted_dates)

is_month_extracted(md, m) == InList(m, md.extracted_months)

mark_date_extracted_reset(md, d) ==
    IF ~InList(d, md.extracted_dates)
    THEN [md EXCEPT !.extracted_dates = <<d>>,
                    !.extracted_months = <<MonthStr(d)>>]
    ELSE md

mark_date_extracted_dup(md, d) ==
    [md EXCEPT !.extracted_dates = Append(@, d),
               !.extracted_months = IF InList(MonthStr(d), @) THEN @
                                    ELSE Append(@, MonthStr(d))]

mark_date_extracted(md, d) ==
    IF ~InList(d, md.extracted_dates)
    THEN [md EXCEPT !.extracted_dates = Append(@, d),
                    !.extracted_months = IF ~InList(MonthStr(d), @)
                                         THEN Append(@, MonthStr(d)) ELSE @]
    ELSE md

mark_month_extracted(md, m) ==
    IF ~InList(m, md.extracted_months)
    THEN [md EXCEPT !.extracted_months = Append(@, m)]
    ELSE md

RECURSIVE MissingLoop(_, _, _)
MissingLoop(md, current_date, end_date) ==
    IF current_date <= end_date
    THEN (IF ~is_date_extracted(md, current_date) THEN <<current_date>> ELSE << >>)
         \o MissingLoop(md, current_date + 1, end_date)
    ELSE << >>

RECURSIVE MissingLoopExclusive(_, _, _)
MissingLoopExclusive(md, current_date, end_date) ==
    IF current_date < end_date
    THEN (IF ~is_date_extracted(md, current_date) THEN <<current_date>> ELSE << >>)
         \o MissingLoopExclusive(md, current_date + 1, end_date)
    ELSE << >>

get_missing_dates_exclusive(md, start_date, end_date) ==
    MissingLoopExclusive(md, start_date, end_date)

get_missing_dates(md, start_date, end_date) ==
    MissingLoop(md, start_date, end_date)

\* a stamping that sets both timestamps
update_extraction_time_both(md, extraction_type, now) ==
    [md EXCEPT !.last_full_extraction = Some(now), !.last_incremental_update = Some(now)]

update_extraction_time(md, extraction_type, now) ==
    IF extraction_type = "full"
    THEN [md EXCEPT !.last_full_extraction = Some(now)]
    ELSE IF extraction_type = "incremental"
    THEN [md EXCEPT !.last_incremental_update = Some(now)]
    ELSE md

\* ------------------------------------------------ metadata file (storage)
\* A JSON entry of the extracted_dates array: "iso" is a string in the
\* format YYYY-MM-DD, with ym its year and month and dd its day of the
\* month; "str" is any other string, "num" a value that is not a string.
isoformat_month(d) == [t |-> "iso", ym |-> MonthStr(d), dd |-> 1]

\* date.isoformat()
isoformat(d) == [t |-> "iso", ym |-> MonthStr(d), dd |-> (d % MonthLen) + 1]

\* datetime.strptime(e, '%Y-%m-%d').date(): the date, ValueError (a string
\* that is no date) or TypeError (no string)
strptime(e) ==
    IF e.t = "iso"
    THEN (IF e.dd \in 1..MonthLen
          THEN [exc |-> "none", v |-> MonthStart(e.ym) + e.dd - 1]
          ELSE [exc |-> "ValueError", v |-> 0])
    ELSE IF e.t = "str" THEN [exc |-> "ValueError", v |-> 0]
    ELSE [exc |-> "TypeError", v |-> 0]

MissingFile ==
    [kind |-> "missing", has_dates |-> FALSE, dates |-> << >>,
     has_months |-> FALSE, months |-> << >>,
     last_full_extraction |-> None, last_incremental_update |-> None,
     data_start_date |-> None]

\* the list comprehension over metadata['extracted_dates']: the first entry
\* that does not parse decides the exception
RECURSIVE ParseDates(_)
ParseDates(es) ==
    IF es = << >> THEN [exc |-> "none", v |-> << >>]
    ELSE LET h == strptime(Head(es))
         IN IF h.exc # "none" THEN [exc |-> h.exc, v |-> << >>]
            ELSE LET r == ParseDates(Tail(es))
                 IN IF r.exc # "none" THEN r
                    ELSE [exc |-> "none", v |-> <<h.v>> \o r.v]

\* the value json.load returned, kept as the metadata dict
LoadedObject(f, dates) ==
    [shape |-> IF f.kind = "array" THEN "array"
               ELSE IF f.kind = "string" THEN "string"
               ELSE IF ~f.has_dates THEN "nodates"
               ELSE IF ~f.has_months THEN "nomonths"
               ELSE "ledger",
     extracted_dates |-> dates,
     extracted_months |-> f.months,
     last_full_extraction |-> f.last_full_extraction,
     last_incremental_update |-> f.last_incremental_update,
     data_start_date |-> f.data_start_date]

\* GA4ExtractionMetadata._load_metadata / GoogleAdsMetadata._load_metadata
LoadDaily(s, f) ==
    IF f.kind = "missing" THEN [raised |-> FALSE, md |-> FreshMetadata(s)]
    ELSE IF f.kind \in {"notjson", "notutf8"}
    THEN [raised |-> FALSE, md |-> FreshMetadata(s)]
    ELSE IF f.kind = "number"
    THEN [raised |-> TRUE, md |-> FreshMetadata(s)]
    ELSE IF f.kind \in {"array", "string"}
    THEN [raised |-> FALSE, md |-> LoadedObject(f, << >>)]
    ELSE IF f.has_dates
    THEN LET r == ParseDates(f.dates)
         IN IF r.exc = "none" THEN [raised |-> FALSE, md |-> LoadedObject(f, r.v)]
            ELSE IF r.exc = "ValueError"
            THEN [raised |-> FALSE, md |-> FreshMetadata(s)]
            ELSE [raised |-> TRUE, md |-> FreshMetadata(s)]
    ELSE [raised |-> FALSE, md |-> LoadedObject(f, << >>)]

\* ExtractionMetadata._load_metadata (Search Console): json.load's value is
\* returned as it is; only JSONDecodeError and FileNotFoundError are caught
LoadMonthly(s, f) ==
    IF f.kind = "missing" THEN [raised |-> FALSE, md |-> FreshMetadata(s)]
    ELSE IF f.kind = "notjson" THEN [raised |-> FALSE, md |-> FreshMetadata(s)]
    ELSE IF f.kind = "notutf8" THEN [raised |-> TRUE, md |-> FreshMetadata(s)]
    ELSE IF f.kind = "number"
    THEN [raised |-> FALSE, md |-> [LoadedObject(f, << >>) EXCEPT !.shape = "number"]]
    ELSE IF f.kind \in {"array", "string"}
    THEN [raised |-> FALSE, md |-> LoadedObject(f, << >>)]
    ELSE [raised |-> FALSE,
          md |-> [LoadedObject(f, << >>) EXCEPT
                     !.shape = IF f.has_months THEN "ledger" ELSE "nomonths"]]

_load_metadata(s, f) == IF s = "sc" THEN LoadMonthly(s, f) ELSE LoadDaily(s, f)

save_metadata_last(s, md) ==
    [kind |-> "object",
     has_dates |-> (s # "sc"),
     dates |-> IF s = "sc" \/ md.extracted_dates = << >> THEN << >>
               ELSE <<isoformat(md.extracted_dates[Len(md.extracted_dates)])>>,
     has_months |-> TRUE,
     months |-> md.extracted_months,
     last_full_extraction |-> md.last_full_extraction,
     last_incremental_update |-> md.last_incremental_update,
     data_start_date |-> md.data_start_date]

\* save_metadata: the dict as JSON, extracted_dates through isoformat
save_metadata(s, md) ==
    [kind |-> "object",
     has_dates |-> (s # "sc"),
     dates |-> IF s = "sc" THEN << >>
               ELSE [k \in 1..Len(md.extracted_dates) |-> isoformat(md.extracted_dates[k])],
     has_months |-> TRUE,
     months |-> md.extracted_months,
     last_full_extraction |-> md.last_full_extraction,
     last_incremental_update |-> md.last_incremental_update,
     data_start_date |-> md.data_start_date]

\* ------------------------------------------------------------- partitions
\* A partition directory report_month=<m>: whether it exists and the row
\* sets of the files in it, in the order they were written.  A row is
\* identified by the date it belongs to.
NoPartition == [exists |-> FALSE, files |-> << >>]

\* write_parquet on one partition directory.  io_ok = FALSE: df.to_parquet
\* raises.  Result: the directory afterwards and "true", "false" or "raise".
write_parquet_always(part, rows, force_overwrite, io_ok) ==
    LET afterRm == IF force_overwrite /\ part.exists THEN NoPartition ELSE part
        made == [afterRm EXCEPT !.exists = TRUE]
    IN IF io_ok THEN [part |-> [made EXCEPT !.files = Append(@, rows)], ret |-> "true"]
       ELSE [part |-> made, ret |-> "raise"]

write_parquet_keep(part, rows, force_overwrite, io_ok) ==
    IF part.exists /\ part.files # << >> /\ ~force_overwrite
    THEN [part |-> part, ret |-> "false"]
    ELSE LET made == [part EXCEPT !.exists = TRUE]
         IN IF io_ok THEN [part |-> [made EXCEPT !.files = Append(@, rows)], ret |-> "true"]
            ELSE [part |-> made, ret |-> "raise"]

\* a writer that neither skips nor removes
write_parquet_append(part, rows, force_overwrite, io_ok) ==
    LET made == [part EXCEPT !.exists = TRUE]
    IN IF io_ok THEN [part |-> [made EXCEPT !.files = Append(@, rows)], ret |-> "true"]
       ELSE [part |-> made, ret |-> "raise"]

write_parquet(part, rows, force_overwrite, io_ok) ==
    IF part.exists /\ part.files # << >> /\ ~force_overwrite
    THEN [part |-> part, ret |-> "false"]
    ELSE LET afterRm == IF force_overwrite /\ part.exists THEN NoPartition ELSE part
             made == [afterRm EXCEPT !.exists = TRUE]
         IN IF io_ok THEN [part |-> [made EXCEPT !.files = Append(@, rows)], ret |-> "true"]
            ELSE [part |-> made, ret |-> "raise"]

\* ---------------------------------------------------------------- state
VARIABLES
    src,        \* which extractor this system is: "ga4", "ads" or "sc"
    today,      \* date.today()
    tables,     \* GA4: the days whose events_<day> table the source publishes
    srcRows,    \* the days for which the source has rows
    file,       \* the metadata file on disk
    parts,      \* the partition directories, by report month
    pc,         \* "none": no extractor object; "running": inside extract_and_save
    metadata,   \* self.metadata.metadata of the extractor object
    run,        \* the latest extract_and_save call: arguments, plan, stats
    log,        \* history: one entry per batch handled by the latest call
    prev,       \* history: the extract_and_save call before the latest one
    nruns,      \* number of extract_and_save calls so far, the clock of datetime.now()
    raised      \* the last operation let an exception escape

vars == <<src, today, tables, srcRows, file, parts, pc, metadata, run, log, prev, nruns, raised>>

PartMonths == 0..MonthStr(MaxDay)

DailyModes == {"full", "smart", "current_month", "last_n_days", "yesterday"}
MonthlyModes == {"full", "smart", "current_only", "last_n_days"}

\* -------------------------------------------------------- source adapters
RECURSIVE Sorted(_)
Sorted(S) ==
    IF S = {} THEN << >>
    ELSE LET m == CHOOSE x \in S : \A y \in S : x <= y
         IN <<m>> \o Sorted(S \ {m})

\* a probe that finds every table
check_table_exists_any(d, tbl, td) == TRUE

\* GA4ExtractorV6.check_table_exists
check_table_exists(d, tbl, td) == d \in tbl /\ d <= td

\* GA4ExtractorV6.get_available_dates
RECURSIVE get_available_dates(_, _, _, _)
get_available_dates(current_date, end_date, tbl, td) ==
    IF current_date <= end_date
    THEN (IF check_table_exists(current_date, tbl, td) THEN <<current_date>> ELSE << >>)
         \o get_available_dates(current_date + 1, end_date, tbl, td)
    ELSE << >>

\* GA4ExtractorV6.extract_date_range: the rows of the tables with a suffix in
\* [start_date, end_date]; an exception of the query gives an empty frame
extract_date_range(start_date, end_date, api_ok, tbl, rows, td) ==
    IF api_ok
    THEN {d \in start_date..end_date : check_table_exists(d, tbl, td) /\ d \in rows}
    ELSE {}

\* GoogleAdsExtractorV6.get_performance_data_batch: the rows with
\* segments.date in [start_date, end_date]; an API error gives an empty frame
get_performance_data_batch(start_date, end_date, api_ok, rows, td) ==
    IF api_ok
    THEN {d \in start_date..end_date : d \in rows /\ d <= td}
    ELSE {}

\* SearchConsoleExtractorV6.get_search_analytics: pages of RowLimit rows;
\* request number fail_at raises (0: none does), which ends the loop with
\* the rows fetched so far
RECURSIVE PageLoop(_, _, _, _, _)
PageLoop(all_rows, start_row, total_requests, available, fail_at) ==
    IF total_requests = fail_at THEN [rows |-> all_rows, failed |-> TRUE]
    ELSE LET new_rows == SubSeq(available, start_row + 1,
                                Min(start_row + RowLimit, Len(available)))
         IN IF new_rows = << >> THEN [rows |-> all_rows, failed |-> FALSE]
            ELSE IF Len(new_rows) < RowLimit
            THEN [rows |-> all_rows \o new_rows, failed |-> FALSE]
            ELSE PageLoop(all_rows \o new_rows, start_row + Len(new_rows),
                          total_requests + 1, available, fail_at)

get_search_analytics(start_date, end_date, fail_at, rows, td) ==
    PageLoop(<< >>, 0, 1,
             Sorted({d \in start_date..end_date : d \in rows /\ d <= td}), fail_at)

\* ---------------------------------------------------------------- planners
Unit(u, cur) == [u |-> u, cur |-> cur]

DateRange(a, b) == [k \in 1..(b - a + 1) |-> Unit(a + k - 1, FALSE)]

AsUnits(ds) == [k \in 1..Len(ds) |-> Unit(ds[k], FALSE)]

UnitBefore(a, b) == a.u < b.u

\* a planner that leaves out the dates of the ledger in every mode
GA4Plan_skip_extracted(mode, end_arg, md, tbl, td) ==
    LET end_date == IF end_arg.some THEN end_arg.v ELSE td
        first == IF mode = "current_month" THEN MonthStart(MonthStr(td))
                 ELSE IF mode = "last_n_days" THEN td - n_days
                 ELSE IF mode = "yesterday" THEN td - 1
                 ELSE DATA_START_DATE
        last == IF mode = "yesterday" THEN td - 1 ELSE end_date
    IN AsUnits(SelectSeq(get_available_dates(first, last, tbl, td),
                         LAMBDA d : ~is_date_extracted(md, d)))

\* GA4ExtractorV6.get_dates_to_extract
GA4Plan(mode, end_arg, md, tbl, td) ==
    LET end_date == IF end_arg.some THEN end_arg.v ELSE td
        dates_to_process ==
            IF mode = "full"
            THEN get_available_dates(DATA_START_DATE, end_date, tbl, td)
            ELSE IF mode = "smart"
            THEN SelectSeq(get_available_dates(DATA_START_DATE, end_date, tbl, td),
                           LAMBDA d : ~is_date_extracted(md, d))
            ELSE IF mode = "current_month"
            THEN get_available_dates(MonthStart(MonthStr(td)), end_date, tbl, td)
            ELSE IF mode = "last_n_days"
            THEN get_available_dates(td - n_days, end_date, tbl, td)
            ELSE IF mode = "yesterday"
            THEN (IF check_table_exists(td - 1, tbl, td) THEN <<td - 1>> ELSE << >>)
            ELSE << >>
    IN SortSeq(AsUnits(dates_to_process), UnitBefore)

\* GoogleAdsExtractorV6.get_dates_to_extract
AdsPlan(mode, end_arg, md, td) ==
    LET end_date == IF end_arg.some THEN end_arg.v ELSE td - AdsDelay
        dates_to_process ==
            IF mode = "full" THEN DateRange(DATA_START_DATE, end_date)
            ELSE IF mode = "smart"
            THEN AsUnits(get_missing_dates(md, DATA_START_DATE, end_date))
            ELSE IF mode = "current_month"
            THEN DateRange(MonthStart(MonthStr(td)), end_date)
            ELSE IF mode = "last_n_days"
            THEN DateRange(end_date - (n_days - 1), end_date)
            ELSE IF mode = "yesterday" THEN <<Unit(td - AdsDelay, FALSE)>>
            ELSE << >>
    IN SortSeq(dates_to_process, UnitBefore)

\* the months of the days start..td in the order they are first met
RECURSIVE MonthChunks(_, _, _)
MonthChunks(current_date, td, processed_months) ==
    IF current_date <= td
    THEN LET m == MonthStr(current_date)
         IN IF m \notin processed_months
            THEN <<Unit(m, m = MonthStr(td))>>
                 \o MonthChunks(current_date + 1, td, processed_months \cup {m})
            ELSE MonthChunks(current_date + 1, td, processed_months)
    ELSE << >>

\* SearchConsoleExtractorV6.get_months_to_extract; i runs over
\* range(lookback_months), the month of i is the current month minus i
get_months_to_extract(mode, lookback_months, md, td) ==
    LET back == [k \in 1..lookback_months |-> Unit(MonthStr(td) - (k - 1), k = 1)]
    IN IF mode = "full" THEN back
       ELSE IF mode = "smart"
       THEN SelectSeq(back, LAMBDA t : t.cur \/ ~is_month_extracted(md, t.u))
       ELSE IF mode = "current_only" THEN <<Unit(MonthStr(td), TRUE)>>
       ELSE IF mode = "last_n_days" THEN MonthChunks(td - lookback_months, td, {})
       ELSE << >>

\* the plan of an extract_and_save call; arg is end_date (daily extractors)
\* or lookback_months (Search Console)
Plan(s, mode, arg, md, tbl, td) ==
    IF s = "ga4" THEN GA4Plan(mode, arg, md, tbl, td)
    ELSE IF s = "ads" THEN AdsPlan(mode, arg, md, td)
    ELSE get_months_to_extract(mode, arg.v, md, td)

\* ------------------------------------------------------------------ driver
EmptyStats ==
    [dates_processed |-> 0, months_processed |-> 0, total_rows |-> 0,
     months_updated |-> {}, months_skipped |-> 0, api_calls_made |-> 0,
     errors |-> << >>]

\* no extract_and_save call yet
NoRun ==
    [status |-> "none", mode |-> "none", batch_size |-> 0, arg |-> 0,
     today0 |-> 0, md0 |-> << >>, plan |-> << >>, i |-> 0, faults |-> 0,
     stats |-> EmptyStats]

NoPrev == [smart |-> FALSE, arg |-> 0, today0 |-> 0, clean |-> FALSE]

ModesOf(s) == IF s = "sc" THEN MonthlyModes ELSE DailyModes

\* end_date of the daily extractors (None or a date), lookback_months of
\* Search Console
ArgsOf(s) ==
    IF s = "sc" THEN {Some(k) : k \in 1..MaxLookback}
    ELSE {None, Some(today)}

\* the end_date the planner works with, or lookback_months
Effective(s, arg, td) ==
    IF arg.some THEN arg.v
    ELSE IF s = "ads" THEN td - AdsDelay
    ELSE td

BatchSizesOf(s) == IF s = "sc" THEN {1} ELSE 1..MaxBatch

\* the batch dates_to_process[i:i + batch_size]
BatchOf(r) == SubSeq(r.plan, r.i + 1, Min(r.i + r.batch_size, Len(r.plan)))

UnitsOf(batch) == [k \in 1..Len(batch) |-> batch[k].u]

MarkFirstOnly(md, ds) ==
    IF ds = << >> THEN md ELSE mark_date_extracted(md, Head(ds))

\* for date_obj in batch_dates: mark_date_extracted(date_obj)
RECURSIVE MarkAll(_, _)
MarkAll(md, ds) ==
    IF ds = << >> THEN md
    ELSE MarkAll(mark_date_extracted(md, Head(ds)), Tail(ds))

\* for month, month_df in df.groupby('month'): write_parquet(...), in
\* ascending order of month; io[m] = FALSE makes the write of month m raise,
\* which ends the loop
RECURSIVE WriteMonths(_, _, _, _, _, _)
WriteMonths(ps, months, df, io, td, acc) ==
    IF months = << >> THEN [parts |-> ps, wrote |-> acc.wrote, skipped |-> acc.skipped,
                            raised |-> FALSE]
    ELSE LET month == Head(months)
             month_df == {d \in df : MonthStr(d) = month}
             force_overwrite == (month = MonthStr(td))
             w == write_parquet(ps[month], month_df, force_overwrite, io[month])
             ps2 == [ps EXCEPT ![month] = w.part]
         IN IF w.ret = "raise"
            THEN [parts |-> ps2, wrote |-> acc.wrote, skipped |-> acc.skipped,
                  raised |-> TRUE]
            ELSE WriteMonths(ps2, Tail(months), df, io, td,
                             IF w.ret = "true"
                             THEN [acc EXCEPT !.wrote = @ \cup {month}]
                             ELSE [acc EXCEPT !.skipped = @ \cup {month}])

MonthsOf(df) == {MonthStr(d) : d \in df}

MarkEvenIfRaised(md, ds, exc) == MarkAll(md, ds)

\* the marking loop after the writes inside the try block: an exception of
\* write_parquet jumps to the except clause, past the loop
MarkUnlessRaised(md, ds, exc) == IF exc THEN md ELSE MarkAll(md, ds)

NothingToProcess_never(plan) == FALSE

\* `if not dates_to_process:` (`if not months_to_process:`)
NothingToProcess(plan) == plan = << >>

Entry(units, fetch, rows, wrote, skipped, exc, marked) ==
    [units |-> units, fetch |-> fetch, rows |-> rows, wrote |-> wrote,
     skipped |-> skipped, raised |-> exc, marked |-> marked]

\* ----------------------------------------------------------------- actions
\* what the source holds: rows for every day, or for every day but one
SourcePatterns == {Days} \cup {Days \ {d} : d \in Days}

Init ==
    /\ src \in Sources
    /\ today \in Days
    /\ srcRows \in SourcePatterns
    /\ tables \in {srcRows, Days}
    /\ (src # "ga4" => tables = srcRows)
    /\ file = MissingFile
    /\ parts = [m \in PartMonths |-> NoPartition]
    /\ pc = "none"
    /\ metadata = FreshMetadata(src)
    /\ run = NoRun
    /\ log = << >>
    /\ prev = NoPrev
    /\ nruns = 0
    /\ raised = FALSE

\* midnight, between two runs
Tick ==
    /\ pc = "none"
    /\ today < MaxDay
    /\ today' = today + 1
    /\ UNCHANGED <<src, tables, srcRows, file, parts, pc, metadata, run, log, prev, nruns, raised>>

\* a new extractor object (__init__ loads the metadata file) and its
\* extract_and_save up to the batch loop: the plan, the early return
StartRun(mode, batch_size, arg) ==
    /\ pc = "none"
    /\ nruns < MaxRuns
    /\ LET ld == _load_metadata(src, file)
       IN IF ld.raised \/ ld.md.shape # "ledger"
          THEN /\ raised' = TRUE
               /\ UNCHANGED <<pc, metadata, run, log, prev, nruns>>
          ELSE LET plan == Plan(src, mode, arg, ld.md, tables, today)
                   r == [status |-> "running", mode |-> mode, batch_size |-> batch_size,
                         arg |-> Effective(src, arg, today), today0 |-> today,
                         md0 |-> ld.md, plan |-> plan, i |-> 0, faults |-> 0,
                         stats |-> EmptyStats]
               IN /\ raised' = FALSE
                  /\ nruns' = nruns + 1
                  /\ metadata' = ld.md
                  /\ prev' = IF run.mode = "smart"
                             THEN [smart |-> TRUE, arg |-> run.arg, today0 |-> run.today0,
                                   clean |-> \A k \in 1..Len(log) : log[k].marked]
                             ELSE NoPrev
                  /\ log' = << >>
                  /\ IF NothingToProcess(plan)
                     THEN /\ run' = [r EXCEPT !.status = "up_to_date"]
                          /\ pc' = "none"
                     ELSE /\ run' = r
                          /\ pc' = "running"
    /\ UNCHANGED <<src, today, tables, srcRows, file, parts>>

\* one iteration of the batch loop of GA4ExtractorV6.extract_and_save
GA4Batch ==
    /\ pc = "running" /\ src = "ga4"
    /\ run.i < Len(run.plan)
    /\ \E api_ok \in BOOLEAN, io \in [PartMonths -> BOOLEAN] :
         LET batch_dates == UnitsOf(BatchOf(run))
             start_date == batch_dates[1]
             end_date == batch_dates[Len(batch_dates)]
             fetch == IF api_ok THEN "ok" ELSE "fail"
             df == extract_date_range(start_date, end_date, api_ok, tables, srcRows, today)
             next == [run EXCEPT !.i = @ + run.batch_size,
                                 !.faults = IF api_ok THEN @ ELSE @ + 1]
         IN IF ~api_ok /\ run.faults >= MaxFaults THEN FALSE
            ELSE IF df = {}
            THEN /\ run' = next
                 /\ log' = Append(log, Entry(batch_dates, fetch, df, {}, {}, FALSE, FALSE))
                 /\ UNCHANGED <<parts, metadata>>
            ELSE LET w == WriteMonths(parts, Sorted(MonthsOf(df)), df, io, today,
                                      [wrote |-> {}, skipped |-> {}])
                     st == [run.stats EXCEPT !.months_updated = @ \cup w.wrote]
                 IN /\ parts' = w.parts
                    /\ log' = Append(log, Entry(batch_dates, fetch, df, w.wrote,
                                                w.skipped, w.raised, ~w.raised))
                    /\ IF w.raised
                       THEN /\ run.faults < MaxFaults
                            /\ run' = [next EXCEPT !.faults = @ + 1, !.stats =
                                          [st EXCEPT !.errors = Append(@, <<start_date, end_date>>)]]
                            /\ metadata' = MarkUnlessRaised(metadata, batch_dates, w.raised)
                       ELSE /\ metadata' = MarkUnlessRaised(metadata, batch_dates, w.raised)
                            /\ run' = [next EXCEPT !.stats =
                                          [st EXCEPT !.dates_processed = @ + Len(batch_dates),
                                                     !.total_rows = @ + Cardinality(df)]]
    /\ UNCHANGED <<src, today, tables, srcRows, file, pc, prev, nruns, raised>>

\* one iteration of the batch loop of GoogleAdsExtractorV6.extract_and_save
AdsBatch ==
    /\ pc = "running" /\ src = "ads"
    /\ run.i < Len(run.plan)
    /\ \E api_ok \in BOOLEAN, io \in [PartMonths -> BOOLEAN] :
         LET batch_dates == UnitsOf(BatchOf(run))
             start_date == batch_dates[1]
             end_date_batch == batch_dates[Len(batch_dates)]
             fetch == IF api_ok THEN "ok" ELSE "fail"
             df == get_performance_data_batch(start_date, end_date_batch, api_ok, srcRows, today)
             next == [run EXCEPT !.i = @ + run.batch_size,
                                 !.faults = IF api_ok THEN @ ELSE @ + 1,
                                 !.stats.api_calls_made = @ + 1]
         IN IF ~api_ok /\ run.faults >= MaxFaults THEN FALSE
            ELSE IF df = {}
            THEN /\ metadata' = MarkAll(metadata, batch_dates)
                 /\ run' = [next EXCEPT !.stats.dates_processed = @ + Len(batch_dates)]
                 /\ log' = Append(log, Entry(batch_dates, fetch, df, {}, {}, FALSE, TRUE))
                 /\ UNCHANGED parts
            ELSE LET w == WriteMonths(parts, Sorted(MonthsOf(df)), df, io, today,
                                      [wrote |-> {}, skipped |-> {}])
                     st == [next.stats EXCEPT !.months_updated = @ \cup w.wrote]
                 IN /\ parts' = w.parts
                    /\ log' = Append(log, Entry(batch_dates, fetch, df, w.wrote,
                                                w.skipped, w.raised, ~w.raised))
                    /\ IF w.raised
                       THEN /\ run.faults < MaxFaults
                            /\ run' = [next EXCEPT !.faults = @ + 1, !.stats =
                                          [st EXCEPT !.errors = Append(@, <<start_date, end_date_batch>>)]]
                            /\ metadata' = MarkUnlessRaised(metadata, batch_dates, w.raised)
                       ELSE /\ metadata' = MarkUnlessRaised(metadata, batch_dates, w.raised)
                            /\ run' = [next EXCEPT !.stats =
                                          [st EXCEPT !.dates_processed = @ + Len(batch_dates),
                                                     !.total_rows = @ + Cardinality(df)]]
    /\ UNCHANGED <<src, today, tables, srcRows, file, pc, prev, nruns, raised>>

\* one iteration of the month loop of SearchConsoleExtractorV6.extract_and_save
SCBatch ==
    /\ pc = "running" /\ src = "sc"
    /\ run.i < Len(run.plan)
    /\ \E fail_at \in 0..(MonthLen + 1), io_ok \in BOOLEAN :
         LET t == run.plan[run.i + 1]
             report_month_str == t.u
             target_month_start == MonthStart(t.u)
             target_month_end == Min(MonthEnd(t.u), today)
             r == get_search_analytics(target_month_start, target_month_end,
                                       fail_at, srcRows, today)
             fetch == IF r.failed THEN "fail" ELSE "ok"
             df == SeqToSet(r.rows)
             next == [run EXCEPT !.i = @ + 1,
                                 !.faults = IF r.failed THEN @ + 1 ELSE @]
         IN IF r.failed /\ run.faults >= MaxFaults THEN FALSE
            ELSE IF df = {}
            THEN /\ run' = [next EXCEPT !.stats.months_skipped = @ + 1]
                 /\ log' = Append(log, Entry(<<t.u>>, fetch, df, {}, {}, FALSE, FALSE))
                 /\ UNCHANGED <<parts, metadata>>
            ELSE LET w == write_parquet(parts[report_month_str], df, t.cur, io_ok)
                 IN /\ parts' = [parts EXCEPT ![report_month_str] = w.part]
                    /\ IF w.ret = "true"
                       THEN /\ run' = [next EXCEPT !.stats.months_processed = @ + 1,
                                                   !.stats.total_rows = @ + Cardinality(df)]
                            /\ metadata' = mark_month_extracted(metadata, report_month_str)
                            /\ log' = Append(log, Entry(<<t.u>>, fetch, df, {t.u}, {}, FALSE, TRUE))
                       ELSE IF w.ret = "false"
                       THEN /\ run' = [next EXCEPT !.stats.months_skipped = @ + 1]
                            /\ log' = Append(log, Entry(<<t.u>>, fetch, df, {}, {t.u}, FALSE, FALSE))
                            /\ UNCHANGED metadata
                       ELSE /\ next.faults < MaxFaults
                            /\ run' = [next EXCEPT !.faults = @ + 1,
                                                   !.stats.errors = Append(@, <<t.u, t.u>>)]
                            /\ log' = Append(log, Entry(<<t.u>>, fetch, df, {}, {}, TRUE, FALSE))
                            /\ UNCHANGED metadata
    /\ UNCHANGED <<src, today, tables, srcRows, file, pc, prev, nruns, raised>>

\* extract_and_save after the loop: update_extraction_time, save_metadata,
\* return stats
FinishRun ==
    /\ pc = "running"
    /\ run.i >= Len(run.plan)
    /\ LET extraction_type == IF run.mode = "full" THEN "full" ELSE "incremental"
           md == update_extraction_time(metadata, extraction_type, nruns)
       IN /\ metadata' = md
          /\ file' = save_metadata(src, md)
    /\ run' = [run EXCEPT !.status = "success"]
    /\ pc' = "none"
    /\ UNCHANGED <<src, today, tables, srcRows, parts, log, prev, nruns, raised>>

Next ==
    \/ Tick
    \/ \E mode \in ModesOf(src), batch_size \in BatchSizesOf(src), arg \in ArgsOf(src) :
          StartRun(mode, batch_size, arg)
    \/ GA4Batch
    \/ AdsBatch
    \/ SCBatch
    \/ FinishRun

Spec == Init /\ [][Next]_vars

TypeOK ==
    /\ src \in Sources
    /\ pc \in {"none", "running", "loaded", "marked", "saved", "reloaded", "planned"}
    /\ today \in Days \cup PlanDays

\* --------------------------------------------------- runs that are killed
\* the process is killed inside the batch loop or before save_metadata opens
\* the file: the extractor object is gone, the files stay as they are
Kill ==
    /\ pc = "running"
    /\ pc' = "none"
    /\ run' = [run EXCEPT !.status = "killed"]
    /\ UNCHANGED <<src, today, tables, srcRows, file, parts, metadata, log, prev, nruns, raised>>

\* the process is killed inside save_metadata, after open(path, 'w') has
\* truncated the file and before json.dump's output is complete on disk: the
\* file is empty or holds the beginning of the JSON text
KillInSave ==
    /\ pc = "running"
    /\ run.i >= Len(run.plan)
    /\ LET extraction_type == IF run.mode = "full" THEN "full" ELSE "incremental"
       IN metadata' = update_extraction_time(metadata, extraction_type, nruns)
    /\ file' = [MissingFile EXCEPT !.kind = "notjson"]
    /\ pc' = "none"
    /\ run' = [run EXCEPT !.status = "killed"]
    /\ UNCHANGED <<src, today, tables, srcRows, parts, log, prev, nruns, raised>>

\* smart runs, the mode that resumes after a killed run
NextKill ==
    \/ Tick
    \/ \E batch_size \in BatchSizesOf(src), arg \in ArgsOf(src) :
          StartRun("smart", batch_size, arg)
    \/ GA4Batch
    \/ AdsBatch
    \/ SCBatch
    \/ FinishRun
    \/ Kill
    \/ KillInSave

SpecKill == Init /\ [][NextKill]_vars

\* ------------------------------------ two runs on the same metadata file
\* Two processes, each with its own extractor object of a daily extractor
\* (GA4 or Google Ads), work on the same OUTPUT_PATH.  In this specification
\* pc, metadata and run hold one value per process, and log is the order in
\* which the processes saved.  Every fetch and write succeeds.
Procs == {1, 2}

ConcModes == {"smart", "yesterday"}

InitConc ==
    /\ src \in {"ga4", "ads"}
    /\ today \in Days
    /\ srcRows \in SourcePatterns
    /\ tables \in {srcRows, Days}
    /\ (src # "ga4" => tables = srcRows)
    /\ file = MissingFile
    /\ parts = [m \in PartMonths |-> NoPartition]
    /\ pc = [p \in Procs |-> "none"]
    /\ metadata = [p \in Procs |-> FreshMetadata(src)]
    /\ run = [p \in Procs |-> NoRun]
    /\ log = << >>
    /\ prev = NoPrev
    /\ nruns = 0
    /\ raised = FALSE

\* process p constructs its extractor (which loads the metadata file) and
\* enters extract_and_save: the plan, the early return
ConcStart(p, mode, batch_size, arg) ==
    /\ pc[p] = "none"
    /\ LET ld == _load_metadata(src, file)
           plan == Plan(src, mode, arg, ld.md, tables, today)
           r == [status |-> "running", mode |-> mode, batch_size |-> batch_size,
                 arg |-> Effective(src, arg, today), today0 |-> today,
                 md0 |-> ld.md, plan |-> plan, i |-> 0, faults |-> 0,
                 stats |-> EmptyStats]
       IN /\ nruns' = nruns + 1
          /\ metadata' = [metadata EXCEPT ![p] = ld.md]
          /\ IF NothingToProcess(plan)
             THEN /\ run' = [run EXCEPT ![p] = [r EXCEPT !.status = "up_to_date"]]
                  /\ pc' = [pc EXCEPT ![p] = "done"]
             ELSE /\ run' = [run EXCEPT ![p] = r]
                  /\ pc' = [pc EXCEPT ![p] = "running"]
    /\ UNCHANGED <<src, today, tables, srcRows, file, parts, log, prev, raised>>

\* one iteration of the batch loop of process p
ConcBatch(p) ==
    /\ pc[p] = "running"
    /\ run[p].i < Len(run[p].plan)
    /\ LET batch_dates == UnitsOf(BatchOf(run[p]))
           start_date == batch_dates[1]
           end_date == batch_dates[Len(batch_dates)]
           df == IF src = "ga4"
                 THEN extract_date_range(start_date, end_date, TRUE, tables, srcRows, today)
                 ELSE get_performance_data_batch(start_date, end_date, TRUE, srcRows, today)
           next == [run[p] EXCEPT !.i = @ + run[p].batch_size]
       IN IF df = {}
          THEN /\ metadata' = [metadata EXCEPT ![p] =
                                  IF src = "ads" THEN MarkAll(@, batch_dates) ELSE @]
               /\ run' = [run EXCEPT ![p] =
                             IF src = "ads"
                             THEN [next EXCEPT !.stats.dates_processed = @ + Len(batch_dates)]
                             ELSE next]
               /\ UNCHANGED parts
          ELSE LET w == WriteMonths(parts, Sorted(MonthsOf(df)), df,
                                    [m \in PartMonths |-> TRUE], today,
                                    [wrote |-> {}, skipped |-> {}])
               IN /\ parts' = w.parts
                  /\ metadata' = [metadata EXCEPT ![p] =
                                     MarkUnlessRaised(@, batch_dates, w.raised)]
                  /\ run' = [run EXCEPT ![p] =
                                [next EXCEPT !.stats.dates_processed = @ + Len(batch_dates),
                                             !.stats.total_rows = @ + Cardinality(df),
                                             !.stats.months_updated = @ \cup w.wrote]]
    /\ UNCHANGED <<src, today, tables, srcRows, file, pc, log, prev, nruns, raised>>

\* process p after its loop: update_extraction_time, save_metadata
ConcFinish(p) ==
    /\ pc[p] = "running"
    /\ run[p].i >= Len(run[p].plan)
    /\ LET extraction_type == IF run[p].mode = "full" THEN "full" ELSE "incremental"
           md == update_extraction_time(metadata[p], extraction_type, nruns)
       IN /\ metadata' = [metadata EXCEPT ![p] = md]
          /\ file' = save_metadata(src, md)
    /\ run' = [run EXCEPT ![p] = [@ EXCEPT !.status = "success"]]
    /\ pc' = [pc EXCEPT ![p] = "done"]
    /\ log' = Append(log, p)
    /\ UNCHANGED <<src, today, tables, srcRows, parts, prev, nruns, raised>>

NextConc ==
    \E p \in Procs :
        \/ \E mode \in ConcModes, batch_size \in BatchSizesOf(src), arg \in ArgsOf(src) :
              ConcStart(p, mode, batch_size, arg)
        \/ ConcBatch(p)
        \/ ConcFinish(p)

SpecConc == InitConc /\ [][NextConc]_vars

\* ------------------------------------------- loading a metadata file alone
\* what the metadata file may hold when an extractor is constructed
FileEntries ==
    {isoformat(0), isoformat(1),
     [t |-> "str", ym |-> 0, dd |-> 0], [t |-> "num", ym |-> 0, dd |-> 0]}

DateLists == UNION {[1..n -> FileEntries] : n \in 0..MaxFileDates}

FileContents ==
    {[MissingFile EXCEPT !.kind = k] :
        k \in {"missing", "notjson", "notutf8", "number", "string", "array"}}
    \cup
    {[kind |-> "object", has_dates |-> hd, dates |-> ds, has_months |-> hm, months |-> ms,
      last_full_extraction |-> None, last_incremental_update |-> ts,
      data_start_date |-> Some(DATA_START_DATE)] :
        hd \in BOOLEAN, ds \in DateLists, hm \in BOOLEAN, ms \in {<< >>, <<0>>},
        ts \in {None, Some(1)}}

InitLoad ==
    /\ src \in Sources
    /\ file \in {f \in FileContents :
                    /\ ~f.has_dates => f.dates = << >>
                    /\ ~f.has_months => f.months = << >>}
    /\ today = 0
    /\ tables = {}
    /\ srcRows = {}
    /\ parts = [m \in PartMonths |-> NoPartition]
    /\ pc = "none"
    /\ metadata = FreshMetadata(src)
    /\ run = NoRun
    /\ log = << >>
    /\ prev = NoPrev
    /\ nruns = 0
    /\ raised = FALSE

\* the extractor's __init__: self.metadata = <Metadata>(METADATA_FILE)
Construct ==
    /\ pc = "none" /\ ~raised
    /\ LET ld == _load_metadata(src, file)
       IN IF ld.raised
          THEN /\ raised' = TRUE
               /\ UNCHANGED <<pc, metadata>>
          ELSE /\ pc' = "loaded"
               /\ metadata' = ld.md
               /\ UNCHANGED raised
    /\ UNCHANGED <<src, today, tables, srcRows, file, parts, run, log, prev, nruns>>

\* the first ledger operation on the loaded dict: mark_date_extracted(d)
\* (mark_month_extracted for Search Console); a dict without the key it
\* reads, or a value that is no dict, raises KeyError / TypeError
MarkLoaded(u) ==
    /\ pc = "loaded"
    /\ pc' = "marked"
    /\ IF src = "sc"
       THEN IF metadata.shape = "ledger"
            THEN metadata' = mark_month_extracted(metadata, u) /\ UNCHANGED raised
            ELSE raised' = TRUE /\ UNCHANGED metadata
       ELSE IF metadata.shape = "ledger"
            THEN metadata' = mark_date_extracted(metadata, u) /\ UNCHANGED raised
            ELSE IF metadata.shape = "nomonths"
            THEN IF ~InList(u, metadata.extracted_dates)
                 THEN /\ metadata' = [metadata EXCEPT !.extracted_dates = Append(@, u)]
                      /\ raised' = TRUE
                 ELSE UNCHANGED <<metadata, raised>>
            ELSE raised' = TRUE /\ UNCHANGED metadata
    /\ UNCHANGED <<src, today, tables, srcRows, file, parts, run, log, prev, nruns>>

\* save_metadata on the loaded dict.  The daily extractors read
\* metadata['extracted_dates'] before they open the file, which raises on a
\* value without that key; Search Console dumps whatever it loaded.
SaveLoaded ==
    /\ pc \in {"loaded", "marked"} /\ ~raised
    /\ pc' = "saved"
    /\ run' = [run EXCEPT !.md0 = metadata]
    /\ IF metadata.shape = "ledger"
       THEN file' = save_metadata(src, metadata) /\ UNCHANGED raised
       ELSE IF src = "sc"
       THEN UNCHANGED <<file, raised>>
       ELSE IF metadata.shape = "nomonths"
       THEN /\ file' = [save_metadata(src, metadata) EXCEPT
                           !.has_months = FALSE, !.months = << >>]
            /\ UNCHANGED raised
       ELSE raised' = TRUE /\ UNCHANGED file
    /\ UNCHANGED <<src, today, tables, srcRows, parts, metadata, log, prev, nruns>>

\* the next extractor's __init__ on the saved file
Reload ==
    /\ pc = "saved" /\ ~raised
    /\ pc' = "reloaded"
    /\ LET ld == _load_metadata(src, file)
       IN IF ld.raised
          THEN raised' = TRUE /\ UNCHANGED metadata
          ELSE metadata' = ld.md /\ UNCHANGED raised
    /\ UNCHANGED <<src, today, tables, srcRows, file, parts, run, log, prev, nruns>>

NextLoad ==
    \/ Construct
    \/ \E u \in 0..1 : MarkLoaded(u)
    \/ SaveLoaded
    \/ Reload

SpecLoad == InitLoad /\ [][NextLoad]_vars

\* ------------------------------------------------------ the planner alone
\* the ledgers an extractor may have loaded when it plans: some of the first
\* dates (months) marked, in ascending order
PlanLedgers(s) ==
    IF s = "sc"
    THEN {[FreshMetadata(s) EXCEPT !.extracted_months = Sorted(M)] :
             M \in SUBSET (0..MonthStr(MaxPlanDay))}
    ELSE {MarkAll(FreshMetadata(s), Sorted(D)) : D \in SUBSET (0..MaxLedgerDay)}

\* end_date (None, today or the day before), or lookback_months
PlanArgsOf(s) ==
    IF s = "sc" THEN {Some(k) : k \in 1..MaxLookback}
    ELSE {None, Some(today - 1), Some(today)}

InitPlan ==
    /\ src \in Sources
    /\ today \in PlanDays
    /\ tables \in {PlanDays} \cup {PlanDays \ {d} : d \in PlanDays}
    /\ (src # "ga4" => tables = PlanDays)
    /\ srcRows = tables
    /\ metadata \in PlanLedgers(src)
    /\ file = save_metadata(src, metadata)
    /\ parts = [m \in PartMonths |-> NoPartition]
    /\ pc = "none"
    /\ run = NoRun
    /\ log = << >>
    /\ prev = NoPrev
    /\ nruns = 0
    /\ raised = FALSE

\* get_dates_to_extract(mode, end_date) / get_months_to_extract(mode,
\* lookback_months) on the constructed extractor
PlanCall(mode, arg) ==
    /\ pc = "none"
    /\ pc' = "planned"
    /\ run' = [NoRun EXCEPT !.status = "planned", !.mode = mode,
                            !.arg = Effective(src, arg, today), !.today0 = today,
                            !.md0 = metadata,
                            !.plan = Plan(src, mode, arg, metadata, tables, today)]
    /\ UNCHANGED <<src, today, tables, srcRows, file, parts, metadata, log, prev, nruns, raised>>

NextPlan == \E mode \in ModesOf(src), arg \in PlanArgsOf(src) : PlanCall(mode, arg)

SpecPlan == InitPlan /\ [][NextPlan]_vars

\* ------------------------------------------------------- the writer alone
\* the non-empty row sets of a month's frame
MonthFrames(m) == (SUBSET {d \in Days : MonthStr(d) = m}) \ {{}}

\* no write_parquet call has touched the partition yet
NoCall == [rows |-> {}, force |-> FALSE, ret |-> "none", replaced |-> FALSE]

\* empty storage; log[m] is the last call that reached the directory of m
InitWrite ==
    /\ src \in Sources
    /\ today = MaxDay
    /\ tables = Days
    /\ srcRows = Days
    /\ metadata = FreshMetadata(src)
    /\ file = MissingFile
    /\ parts = [m \in PartMonths |-> NoPartition]
    /\ pc = "none"
    /\ run = NoRun
    /\ log = [m \in PartMonths |-> NoCall]
    /\ prev = NoPrev
    /\ nruns = 0
    /\ raised = FALSE

\* write_parquet(df, ..., report_month, force_overwrite).  When df.to_parquet
\* raises, the file it had opened is not there or is there with a part of
\* the rows (partial: no file, or one file with fewer rows).
WriteCall(report_month, df, force_overwrite, io_ok, partial) ==
    LET part == parts[report_month]
        w == write_parquet(part, df, force_overwrite, io_ok)
        after == IF w.ret = "raise"
                 THEN [w.part EXCEPT !.files = @ \o partial]
                 ELSE w.part
    IN /\ parts' = [parts EXCEPT ![report_month] = after]
       /\ log' = IF w.ret = "false" THEN log
                 ELSE [log EXCEPT ![report_month] =
                          [rows |-> df, force |-> force_overwrite, ret |-> w.ret,
                           replaced |-> part.files # << >>]]
       /\ raised' = (w.ret = "raise")
       /\ UNCHANGED <<src, today, tables, srcRows, file, pc, metadata, run, prev, nruns>>

NextWrite ==
    \E report_month \in PartMonths, force_overwrite \in BOOLEAN, io_ok \in BOOLEAN :
        \E df \in MonthFrames(report_month) :
            \E partial \in {<< >>} \cup {<<L>> : L \in (SUBSET df) \ {df}} :
                WriteCall(report_month, df, force_overwrite, io_ok, partial)

SpecWrite == InitWrite /\ [][NextWrite]_vars

\* --------------------------------------------------------- the chat memory
\* copilot/memory: the table chat_messages is a set of rows; "" is the
\* session id that `not session_id` rejects
SessionIds == {"", "s1", "s2"}

Roles == {"user", "assistant"}

Contents == {"a", "b"}

\* the id the database gives the next row (auto-increment primary key)
NextId(db) ==
    IF db = {} THEN 1 ELSE (CHOOSE i \in {r.id : r \in db} : \A r \in db : r.id <= i) + 1

\* ORDER BY id DESC
RECURSIVE OrderByIdDesc(_)
OrderByIdDesc(rows) ==
    IF rows = {} THEN << >>
    ELSE LET top == CHOOSE r \in rows : \A q \in rows : q.id <= r.id
         IN <<top>> \o OrderByIdDesc(rows \ {top})

\* crud.log_message: the table after the call
log_message(db, session_id, role, content) ==
    IF session_id = "" THEN db
    ELSE db \cup {[id |-> NextId(db), session_id |-> session_id,
                   role |-> role, content |-> content]}

\* a history that takes the first rows of the session instead of the last
fetch_history_oldest(db, session_id, limit) ==
    IF session_id = "" THEN << >>
    ELSE LET desc == OrderByIdDesc({r \in db : r.session_id = session_id})
             asc == [j \in 1..Len(desc) |-> desc[Len(desc) - j + 1]]
             rows == SubSeq(asc, 1, Min(limit, Len(asc)))
         IN [j \in 1..Len(rows) |-> [role |-> rows[j].role, content |-> rows[j].content]]

\* crud.fetch_history: filter, order_by(id.desc()), limit, reverse
fetch_history(db, session_id, limit) ==
    IF session_id = "" THEN << >>
    ELSE LET ordered == OrderByIdDesc({r \in db : r.session_id = session_id})
             rows == SubSeq(ordered, 1, Min(limit, Len(ordered)))
             reversed == [j \in 1..Len(rows) |-> rows[Len(rows) - j + 1]]
         IN [j \in 1..Len(reversed) |->
                [role |-> reversed[j].role, content |-> reversed[j].content]]

\* no fetch_history call yet
NoFetch == [session_id |-> "", limit |-> 0, result |-> << >>]

\* a fresh database (init_db); tables is chat_messages, log the log_message
\* calls made so far, run the last fetch_history call and its result
InitMemory ==
    /\ src = "ga4"
    /\ today = 0
    /\ tables = {}
    /\ srcRows = {}
    /\ metadata = FreshMetadata(src)
    /\ file = MissingFile
    /\ parts = [m \in PartMonths |-> NoPartition]
    /\ pc = "none"
    /\ run = NoFetch
    /\ log = << >>
    /\ prev = NoPrev
    /\ nruns = 0
    /\ raised = FALSE

LogMessage(session_id, role, content) ==
    /\ Len(log) < MaxMessages
    /\ tables' = log_message(tables, session_id, role, content)
    /\ log' = Append(log, [session_id |-> session_id, role |-> role, content |-> content])
    /\ pc' = "logged"
    /\ UNCHANGED <<src, today, srcRows, file, parts, metadata, run, prev, nruns, raised>>

FetchHistory(session_id, limit) ==
    /\ run' = [session_id |-> session_id, limit |-> limit,
               result |-> fetch_history(tables, session_id, limit)]
    /\ pc' = "fetched"
    /\ UNCHANGED <<src, today, tables, srcRows, file, parts, metadata, log, prev, nruns, raised>>

NextMemory ==
    \/ \E session_id \in SessionIds, role \in Roles, content \in Contents :
          LogMessage(session_id, role, content)
    \/ \E session_id \in SessionIds, limit \in 0..MaxLimit :
          FetchHistory(session_id, limit)

SpecMemory == InitMemory /\ [][NextMemory]_vars

\* ---------------------------------------------------- network-level retry
\* utils/error_handler.retry (defaults delay=1.0, backoff=2.0) and
\* copilot/summarization/crawler.fetch_url (default backoff=2.0)
RetryDelay == 1

RetryBackoff == 2

FetchBackoff == 2

Retriers == {"retry", "fetch_url"}

\* what one call of the wrapped function (one requests.get) does: it returns
\* a value, or raises an exception that the except clause catches or, for
\* retry(exceptions=...), does not catch
CallOutcomes(f) ==
    {[ok |-> TRUE, v |-> r, caught |-> FALSE] : r \in {"r1", "r2"}}
        \cup {[ok |-> FALSE, v |-> e, caught |-> c] :
                 e \in {"e1", "e2"}, c \in IF f = "retry" THEN BOOLEAN ELSE {TRUE}}

\* `if attempt == max_attempts` never true
IsFinalAttempt_never(attempt, max_attempts) == FALSE

\* `if attempt == max_attempts` (retry), `attempt != retries` negated (fetch_url)
IsFinalAttempt(attempt, max_attempts) == attempt = max_attempts

\* the wrapper (fetch_url) is entered: src is the function, nruns its
\* max_attempts (retries), log the outcomes of the calls made so far
InitRetry ==
    /\ src \in Retriers
    /\ nruns \in 0..MaxAttempts
    /\ today = 0
    /\ tables = {}
    /\ srcRows = {}
    /\ metadata = FreshMetadata("ga4")
    /\ file = MissingFile
    /\ parts = [m \in PartMonths |-> NoPartition]
    /\ pc = "loop"
    /\ run = [attempt |-> IF src = "retry" THEN 0 ELSE 1,
              current_delay |-> IF src = "retry" THEN RetryDelay ELSE 0,
              sleeps |-> 0, slept |-> 0, result |-> "unset", exc |-> "unset"]
    /\ log = << >>
    /\ prev = NoPrev
    /\ raised = FALSE

\* retry.wrapper: one pass of `while attempt < max_attempts` up to the
\* return, the raise or the sleep
RetryAttempt(o) ==
    /\ src = "retry" /\ pc = "loop"
    /\ run.attempt < nruns
    /\ log' = Append(log, o)
    /\ IF o.ok
       THEN /\ pc' = "returned"
            /\ run' = [run EXCEPT !.result = o.v]
       ELSE IF ~o.caught
       THEN /\ pc' = "raised"
            /\ run' = [run EXCEPT !.exc = o.v]
       ELSE IF IsFinalAttempt(run.attempt + 1, nruns)
       THEN /\ pc' = "raised"
            /\ run' = [run EXCEPT !.attempt = @ + 1, !.exc = o.v]
       ELSE /\ pc' = "sleep"
            /\ run' = [run EXCEPT !.attempt = @ + 1]
    /\ UNCHANGED <<src, today, tables, srcRows, file, parts, metadata, prev, nruns, raised>>

\* retry.wrapper: time.sleep(current_delay); current_delay *= backoff
RetrySleep ==
    /\ src = "retry" /\ pc = "sleep"
    /\ run' = [run EXCEPT !.sleeps = @ + 1, !.slept = @ + run.current_delay,
                          !.current_delay = @ * RetryBackoff]
    /\ pc' = "loop"
    /\ UNCHANGED <<src, today, tables, srcRows, file, parts, metadata, log, prev, nruns, raised>>

\* retry.wrapper: the loop condition fails, `return None`
RetryExhausted ==
    /\ src = "retry" /\ pc = "loop"
    /\ ~(run.attempt < nruns)
    /\ run' = [run EXCEPT !.result = "None"]
    /\ pc' = "returned"
    /\ UNCHANGED <<src, today, tables, srcRows, file, parts, metadata, log, prev, nruns, raised>>

\* fetch_url: one pass of `for attempt in range(1, retries + 1)` up to the
\* return, the sleep or the end of the pass
FetchAttempt(o) ==
    /\ src = "fetch_url" /\ pc = "loop"
    /\ run.attempt <= nruns
    /\ log' = Append(log, o)
    /\ IF o.ok
       THEN /\ pc' = "returned"
            /\ run' = [run EXCEPT !.result = o.v]
       ELSE IF ~IsFinalAttempt(run.attempt, nruns)
       THEN /\ pc' = "sleep"
            /\ run' = run
       ELSE /\ pc' = "loop"
            /\ run' = [run EXCEPT !.attempt = @ + 1]
    /\ UNCHANGED <<src, today, tables, srcRows, file, parts, metadata, prev, nruns, raised>>

\* fetch_url: time.sleep(backoff * attempt), then the next pass
FetchSleep ==
    /\ src = "fetch_url" /\ pc = "sleep"
    /\ run' = [run EXCEPT !.sleeps = @ + 1, !.slept = @ + FetchBackoff * run.attempt,
                          !.attempt = @ + 1]
    /\ pc' = "loop"
    /\ UNCHANGED <<src, today, tables, srcRows, file, parts, metadata, log, prev, nruns, raised>>

\* fetch_url: the loop is over, `return None`
FetchExhausted ==
    /\ src = "fetch_url" /\ pc = "loop"
    /\ ~(run.attempt <= nruns)
    /\ run' = [run EXCEPT !.result = "None"]
    /\ pc' = "returned"
    /\ UNCHANGED <<src, today, tables, srcRows, file, parts, metadata, log, prev, nruns, raised>>

NextRetry ==
    \/ \E o \in CallOutcomes("retry") : RetryAttempt(o)
    \/ RetrySleep
    \/ RetryExhausted
    \/ \E o \in CallOutcomes("fetch_url") : FetchAttempt(o)
    \/ FetchSleep
    \/ FetchExhausted

\* the wrapper is sequential code: a call returns or raises, a sleep ends
SpecRetry == InitRetry /\ [][NextRetry]_vars /\ WF_vars(NextRetry)

\* ------------------------------------------------------------------ claims
\* the units the ledger records as extracted
Extracted(s, md) ==
    IF s = "sc" THEN SeqToSet(md.extracted_months) ELSE SeqToSet(md.extracted_dates)

\* the units the saved metadata file records as extracted
ExtractedInFile(s, f) ==
    IF s = "sc" THEN SeqToSet(f.months)
    ELSE {strptime(f.dates[k]).v : k \in 1..Len(f.dates)}

\* the rows held by the files of a partition
PartRows(m) == UNION SeqToSet(parts[m].files)

FailedBatches == {k \in 1..Len(log) : log[k].fetch = "fail"}

RECURSIVE UnitCount(_, _)
UnitCount(entries, ks) ==
    IF ks = {} THEN 0
    ELSE LET k == CHOOSE x \in ks : TRUE
         IN Len(entries[k].units) + UnitCount(entries, ks \ {k})

LoggedUnits == UNION {SeqToSet(log[k].units) : k \in 1..Len(log)}

\* C1: when the fetch of a batch fails, no unit of the batch is added to the
\* ledger, an error message is appended to the summary's errors, and every
\* later batch is still handled.
C1_FetchFailureIsolated ==
    run.status # "none" =>
        /\ \A k \in FailedBatches :
              /\ \A u \in SeqToSet(log[k].units) :
                    u \notin Extracted(src, run.md0) => u \notin Extracted(src, metadata)
              /\ Len(run.stats.errors) >= Cardinality({j \in FailedBatches : j <= k})
        /\ run.status = "success" =>
              LoggedUnits = {run.plan[k].u : k \in 1..Len(run.plan)}

\* C2: the units of a batch that returned rows are marked extracted only if
\* write_parquet wrote the rows (returned true) for every month of the rows.
C2_MarkedOnlyAfterWrite ==
    run.status # "none" =>
        \A k \in 1..Len(log) :
            (log[k].rows # {} /\ log[k].marked) => log[k].wrote = MonthsOf(log[k].rows)

\* C3: after a smart run on an empty ledger and empty storage with every
\* fetch succeeding and one month's dates split over several batches, the
\* month's partition holds the rows of every batch and nothing of the
\* planned range is missing.
C3_SplitMonthComplete ==
    (/\ src # "sc" /\ run.status = "success" /\ run.mode = "smart"
     /\ nruns = 1 /\ run.faults = 0
     /\ \E j, k \in 1..Len(log) :
           j < k /\ MonthsOf(log[j].rows) \cap MonthsOf(log[k].rows) # {})
    => /\ \A k \in 1..Len(log) : \A d \in log[k].rows : d \in PartRows(MonthStr(d))
       /\ get_missing_dates(metadata, run.plan[1].u, run.plan[Len(run.plan)].u) = << >>

\* the latest call and the one before it are smart runs with the same end
\* date (lookback) on the same day
SecondSmartRun ==
    /\ run.mode = "smart" /\ prev.smart
    /\ run.arg = prev.arg /\ run.today0 = prev.today0

C5_OneFailedBatchSummary ==
    (/\ run.status = "success" /\ Len(log) >= 2
     /\ Cardinality(FailedBatches) = 1
     /\ \A k \in 1..Len(log) : ~log[k].raised)
    => LET ok == (1..Len(log)) \ FailedBatches
       IN /\ run.stats.dates_processed + run.stats.months_processed = UnitCount(log, ok)
          /\ Len(run.stats.errors) = 1
          /\ \A k \in ok : SeqToSet(log[k].units) \subseteq ExtractedInFile(src, file)
          /\ \A k \in FailedBatches : \A u \in SeqToSet(log[k].units) :
                u \notin Extracted(src, run.md0) => u \notin ExtractedInFile(src, file)

\* the claim's malformed contents: no JSON, JSON that is no object, an
\* object without extracted_dates, date entries that are no YYYY-MM-DD strings
Malformed(f) ==
    \/ f.kind \in {"notjson", "notutf8", "number", "string", "array"}
    \/ f.kind = "object" /\ ~f.has_dates
    \/ f.kind = "object" /\ \E k \in 1..Len(f.dates) : f.dates[k].t # "iso"

\* C6: loading the ledger, and the ledger operation after it, never raises;
\* a missing or malformed file gives a fresh empty ledger whose
\* data_start_date is the configured default.
C6_LoadNeverRaises ==
    /\ ~raised
    /\ (pc = "loaded" /\ (file.kind = "missing" \/ Malformed(file))) =>
           /\ metadata.shape = "ledger"
           /\ metadata.extracted_dates = << >>
           /\ metadata.extracted_months = << >>
           /\ metadata.data_start_date = Some(DATA_START_DATE)

\* the non-empty row sets a frame of month m can hold
RowSets(m) == (SUBSET {d \in Days : MonthStr(d) = m}) \ {{}}

\* C7: write_parquet without force_overwrite on a partition that has a file
\* returns false and leaves it unchanged; no step changes the contents of
\* the partition of a past month once it has a file.
C7_PastPartitionFrozen ==
    [][\A m \in PartMonths :
          parts[m].files # << >> =>
              /\ \A rows \in RowSets(m), io_ok \in BOOLEAN :
                    write_parquet(parts[m], rows, FALSE, io_ok)
                        = [part |-> parts[m], ret |-> "false"]
              /\ m < MonthStr(today) => parts'[m] = parts[m]]_vars

\* a batch of rows of a past month met a partition with data and was skipped
C7_Witness ==
    /\ pc = "running"
    /\ \E k \in 1..Len(log) : \E m \in log[k].skipped :
          m < MonthStr(today) /\ parts[m].files # << >>

\* C8: write_parquet with force_overwrite on a partition with data removes
\* the existing files before writing: it returns true, and after two such
\* writes with different row sets the partition holds exactly the rows of
\* the second; in a run, the partition of the current month holds exactly
\* the rows of the last batch written to it.
C8_ForceOverwriteReplaces ==
    /\ \A m \in PartMonths : \A r1, r2 \in RowSets(m) :
          r1 # r2 =>
              LET w1 == write_parquet(parts[m], r1, TRUE, TRUE)
                  w2 == write_parquet(w1.part, r2, TRUE, TRUE)
              IN /\ w1.ret = "true" /\ w1.part.files = <<r1>>
                 /\ w2.ret = "true" /\ w2.part.files = <<r2>>
    /\ (run.status # "none" /\ log # << >>) =>
          LET last == log[Len(log)]
              m == MonthStr(run.today0)
          IN m \in last.wrote =>
                parts[m].files = <<{d \in last.rows : MonthStr(d) = m}>>

\* two batches of one run wrote different rows to the current month
C8_Witness ==
    /\ run.status # "none"
    /\ \E j, k \in 1..Len(log) :
          /\ j < k /\ k = Len(log)
          /\ MonthStr(run.today0) \in log[j].wrote \cap log[k].wrote
          /\ log[j].rows # log[k].rows

ProbeDays == (0 - 1)..(MaxDay + 1)

\* C9: get_missing_dates(start, end) is the ascending list, without
\* repetition, of exactly the dates of [start, end] that are not in
\* extracted_dates; it is empty when start > end.
C9_MissingDatesExact ==
    \A s \in ProbeDays, e \in ProbeDays :
        LET r == get_missing_dates(metadata, s, e)
        IN /\ Ascending(r)
           /\ SeqToSet(r) = {d \in s..e : d \notin SeqToSet(metadata.extracted_dates)}
           /\ s > e => r = << >>

\* the ledger of the claim's example: dates 0 and 2 extracted, asked over 0..4
C9_Witness ==
    /\ src = "ads" /\ run.mode = "smart"
    /\ SeqToSet(metadata.extracted_dates) = {0, 2}
    /\ get_missing_dates(metadata, 0, 4) = <<1, 3, 4>>

\* C10: marking a unit twice gives the ledger that marking it once gives,
\* and no list of the ledger holds a unit twice.
C10_MarkIdempotent ==
    /\ NoDup(metadata.extracted_dates)
    /\ NoDup(metadata.extracted_months)
    /\ \A u \in ProbeDays :
          /\ LET once == mark_date_extracted(metadata, u)
                 twice == mark_date_extracted(once, u)
             IN /\ twice = once
                /\ get_missing_dates(twice, 0 - 1, MaxDay + 1)
                       = get_missing_dates(once, 0 - 1, MaxDay + 1)
                /\ is_date_extracted(twice, u) = is_date_extracted(once, u)
          /\ LET once == mark_month_extracted(metadata, u)
             IN mark_month_extracted(once, u) = once

\* a batch marked units that the ledger already held
C10_Witness ==
    /\ run.status # "none"
    /\ \E k \in 1..Len(log) :
          /\ log[k].marked
          /\ \E u \in SeqToSet(log[k].units) : u \in Extracted(src, run.md0)

\* C11: extracted_units only grows: no step removes a unit from the ledger
\* in memory, the ledger of a run holds every unit that was loaded at its
\* start, and the ledger saved at the end of the run holds them too.
C11_LedgerOnlyGrows ==
    /\ [](run.status # "none" =>
            /\ Extracted(src, run.md0) \subseteq Extracted(src, metadata)
            /\ run.status = "success" =>
                   Extracted(src, run.md0) \subseteq ExtractedInFile(src, file))
    /\ [][Extracted(src, metadata) \subseteq Extracted(src, metadata')]_vars

\* a finished run that started from a ledger with units and saved more
C11_Witness ==
    /\ run.status = "success"
    /\ Extracted(src, run.md0) # {}
    /\ Extracted(src, run.md0) # ExtractedInFile(src, file)
    /\ Extracted(src, run.md0) \subseteq ExtractedInFile(src, file)

\* the units of the plan of the latest call
PlanUnits == {run.plan[k].u : k \in 1..Len(run.plan)}

\* C15: a call whose plan is empty returns up_to_date with zero units
\* processed, having fetched nothing, written no partition, changed neither
\* extracted_units nor a timestamp and saved nothing; nothing is saved or
\* stamped afterwards either.
C15_EmptyPlanNoEffect ==
    /\ [](run.status = "up_to_date" =>
            /\ run.plan = << >> /\ log = << >> /\ run.stats = EmptyStats)
    /\ [][(nruns' = nruns + 1 /\ run'.plan = << >>) =>
            /\ run'.status = "up_to_date" /\ pc' = "none"
            /\ run'.stats = EmptyStats /\ log' = << >>
            /\ file' = file /\ parts' = parts
            /\ metadata' = metadata
            /\ metadata' = _load_metadata(src, file).md]_vars
    /\ [][(run.status = "up_to_date" /\ run' = run) =>
            (file' = file /\ parts' = parts /\ metadata' = metadata)]_vars

\* an up_to_date call after a run that saved a ledger with units
C15_Witness ==
    /\ run.status = "up_to_date" /\ nruns = 2
    /\ file.kind = "object"
    /\ ExtractedInFile(src, file) # {}
    /\ file.last_incremental_update = Some(1)

RaisedBatches == {k \in 1..Len(log) : log[k].raised}

\* C16: when the partition write of a batch raises, extract_and_save goes
\* on: an error is appended to the summary, no unit of the batch is marked
\* extracted, every later batch is handled, the ledger is stamped and saved
\* at the end, and a smart run over the same range plans the batch's units
\* again.
C16_WriteFailureIsolated ==
    run.status # "none" =>
        /\ \A k \in RaisedBatches :
              /\ ~log[k].marked
              /\ \A u \in SeqToSet(log[k].units) :
                    u \notin Extracted(src, run.md0) => u \notin Extracted(src, metadata)
              /\ Len(run.stats.errors) >= Cardinality({j \in RaisedBatches : j <= k})
        /\ (run.status = "success" /\ RaisedBatches # {}) =>
              /\ LoggedUnits = PlanUnits
              /\ file = save_metadata(src, metadata)
              /\ (IF run.mode = "full" THEN file.last_full_extraction
                  ELSE file.last_incremental_update) = Some(nruns)
              /\ (today = run.today0 /\ ~(src = "sc" /\ run.mode = "last_n_days")) =>
                    LET again == Plan(src, "smart", Some(run.arg),
                                      _load_metadata(src, file).md, tables, today)
                    IN \A k \in RaisedBatches : \A u \in SeqToSet(log[k].units) :
                          (u \notin Extracted(src, run.md0) /\ (src = "sc" \/ u >= DATA_START_DATE))
                              => \E j \in 1..Len(again) : again[j].u = u

\* a finished run of several batches, the first of which failed in its write
C16_Witness ==
    /\ run.status = "success"
    /\ Len(log) >= 2
    /\ log[1].raised /\ log[2].marked
    /\ Len(run.stats.errors) = 1

\* the rows the source holds for the range of a batch
RangeRows(units) ==
    IF src = "sc"
    THEN {d \in MonthStart(units[1])..Min(MonthEnd(units[1]), run.today0) : d \in srcRows}
    ELSE {d \in units[1]..units[Len(units)] :
             d \in srcRows /\ d <= run.today0 /\ (src = "ga4" => d \in tables)}

\* C17: a fetch returns the complete rows of its range or fails: the rows a
\* batch got from its fetch, and which are written and marked, are all the
\* rows of the range, also when a page request of the fetch failed.
C17_FetchAllOrNothing ==
    run.status # "none" =>
        \A k \in 1..Len(log) :
            log[k].rows # {} => log[k].rows = RangeRows(log[k].units)

\* C12: save_metadata followed by _load_metadata gives the ledger that was
\* saved: the same extracted dates (through isoformat and strptime), the
\* same extracted months, timestamps and data_start_date; every date comes
\* back from its YYYY-MM-DD string.
C12_LedgerRoundTrip ==
    /\ \A d \in ProbeDays : strptime(isoformat(d)) = [exc |-> "none", v |-> d]
    /\ (pc \in {"saved", "reloaded"} /\ run.md0.shape = "ledger") =>
          /\ ~raised
          /\ file.kind = "object"
          /\ ExtractedInFile(src, file) = Extracted(src, run.md0)
    /\ (pc = "reloaded" /\ run.md0.shape = "ledger") =>
          /\ metadata.shape = "ledger"
          /\ metadata.extracted_dates = run.md0.extracted_dates
          /\ metadata.extracted_months = run.md0.extracted_months
          /\ metadata.last_full_extraction = run.md0.last_full_extraction
          /\ metadata.last_incremental_update = run.md0.last_incremental_update
          /\ metadata.data_start_date = run.md0.data_start_date

\* a GA4 ledger with two dates and a timestamp, saved and loaded again
C12_Witness ==
    /\ pc = "reloaded" /\ src = "ga4"
    /\ run.md0.shape = "ledger"
    /\ run.md0.extracted_dates = <<1, 0>>
    /\ run.md0.extracted_months = <<0>>
    /\ run.md0.last_incremental_update = Some(1)

\* the months range(lookback_months) reaches back from the current month
LookbackMonths(k, td) == {MonthStr(td) - j : j \in 0..(k - 1)}

\* the units of [data_start_unit, end] the source has and the ledger lacks;
\* Google Ads has no availability probe, Search Console's range is the
\* lookback
SmartMissing ==
    IF src = "ga4"
    THEN {d \in DATA_START_DATE..run.arg :
             check_table_exists(d, tables, run.today0) /\ d \notin Extracted(src, run.md0)}
    ELSE IF src = "ads"
    THEN {d \in DATA_START_DATE..run.arg : d \notin Extracted(src, run.md0)}
    ELSE {m \in LookbackMonths(run.arg, run.today0) : m \notin Extracted(src, run.md0)}

SmartPlanned == pc = "planned" /\ run.mode = "smart"

\* C13 as stated: the smart plan is exactly the available units of the range
\* that are not in the ledger, and holds no unit of the ledger.
C13_SmartPlanIsMissingUnits ==
    SmartPlanned =>
        /\ PlanUnits = SmartMissing
        /\ PlanUnits \cap Extracted(src, run.md0) = {}

\* C13 as amended: for GA4 and Google Ads the smart plan is exactly the
\* units of the range (GA4: with a table) that are not in the ledger; for
\* Search Console it is the months of the lookback that are not in the
\* ledger together with the current month, which is planned always.
C13_SmartPlanMissingOrCurrent ==
    SmartPlanned =>
        IF src = "sc"
        THEN /\ PlanUnits = SmartMissing \cup {MonthStr(run.today0)}
             /\ PlanUnits \cap Extracted(src, run.md0) \subseteq {MonthStr(run.today0)}
        ELSE /\ PlanUnits = SmartMissing
             /\ PlanUnits \cap Extracted(src, run.md0) = {}

\* Search Console plans the current month, which the ledger holds, and
\* leaves out the month before, which the ledger holds too
C13_Witness ==
    /\ SmartPlanned /\ src = "sc" /\ run.arg = 2
    /\ {MonthStr(run.today0), MonthStr(run.today0) - 1} \subseteq Extracted(src, run.md0)
    /\ PlanUnits = {MonthStr(run.today0)}

\* C14: the plan of every mode and extractor is in strictly ascending order,
\* and the batches are handled one after the other in the order of the plan.
C14_PlanAscendingBatchesInOrder ==
    run.status # "none" =>
        /\ Ascending(UnitsOf(run.plan))
        /\ \A k \in 1..Len(log) :
              log[k].units = UnitsOf(SubSeq(run.plan, (k - 1) * run.batch_size + 1,
                                            Min(k * run.batch_size, Len(run.plan))))

\* C20: the last_n_days plan of the daily extractors has at most n_days
\* units, none later than the end date it was asked for and none earlier
\* than n_days - 1 days before it.
C20_LastNWindow ==
    (pc = "planned" /\ run.mode = "last_n_days" /\ src # "sc") =>
        /\ Len(run.plan) <= n_days
        /\ \A u \in PlanUnits : u <= run.arg /\ u >= run.arg - (n_days - 1)

\* C18: after a run was killed before its save completed, the metadata file
\* loads as exactly the ledger of the last successful save (the ledger the
\* killed run had loaded), and a smart plan made from it has every available
\* unit of the range that it lacks.
C18_KillLeavesLastSave ==
    run.status = "killed" =>
        LET ld == _load_metadata(src, file)
        IN /\ ~ld.raised
           /\ ld.md = run.md0
           /\ src = "ga4" =>
                 LET again == Plan(src, "smart", Some(today), ld.md, tables, today)
                 IN {again[j].u : j \in 1..Len(again)}
                        = {d \in DATA_START_DATE..today :
                              check_table_exists(d, tables, today)
                                  /\ d \notin Extracted(src, ld.md)}

\* the units process p planned
PlanUnitsOf(p) == {run[p].plan[k].u : k \in 1..Len(run[p].plan)}

\* C19: with two runs on the same metadata file, the file holds the copy of
\* the process that saved last: its units are the units that process loaded
\* when it was constructed and the units it marked itself, whatever the
\* other process saved in between.
C19_LastWriterWins ==
    log # << >> =>
        LET w == log[Len(log)]
        IN /\ ExtractedInFile(src, file) = Extracted(src, metadata[w])
           /\ file.last_incremental_update = metadata[w].last_incremental_update
           /\ Extracted(src, metadata[w]) \subseteq
                  Extracted(src, run[w].md0) \cup PlanUnitsOf(w)
           /\ Extracted(src, run[w].md0) \subseteq Extracted(src, metadata[w])

\* a lost update: both processes have saved, and the file lacks a unit that
\* the first saver marked and saved
C19_Witness ==
    /\ Len(log) = 2
    /\ \A p \in Procs : pc[p] = "done"
    /\ \E u \in Extracted(src, metadata[log[1]]) : u \notin ExtractedInFile(src, file)

\* the reporting delay the yesterday plan is stated with
StatedDelay(s) == IF s = "ga4" THEN 0 ELSE AdsDelay

YesterdayPlanned == pc = "planned" /\ run.mode = "yesterday"

\* C21 as stated: the yesterday plan is empty or the one unit as_of_date
\* minus the reporting delay (GA4: 0 days, Google Ads: 3 days), and it is
\* non-empty only if the source has that unit.
C21_YesterdayDelayAndProbe ==
    YesterdayPlanned =>
        /\ Len(run.plan) <= 1
        /\ PlanUnits \subseteq {run.today0 - StatedDelay(src)}
        /\ \A u \in PlanUnits : u \in srcRows /\ u <= run.today0

\* C21 as amended: the GA4 yesterday plan is the day before as_of_date if
\* that day's table exists and is empty otherwise; the Google Ads yesterday
\* plan is always the one day as_of_date minus 3, with no probe of the source
\* and whatever the ledger holds.
C21_YesterdayPlanByExtractor ==
    YesterdayPlanned =>
        IF src = "ga4"
        THEN run.plan = IF (run.today0 - 1) \in tables
                        THEN <<Unit(run.today0 - 1, FALSE)>> ELSE << >>
        ELSE run.plan = <<Unit(run.today0 - AdsDelay, FALSE)>>

\* GA4 plans nothing because the table of the day before is not there
C21_Witness ==
    /\ YesterdayPlanned /\ src = "ga4"
    /\ run.today0 >= 1 /\ (run.today0 - 1) \notin tables
    /\ run.plan = << >>

\* the modes that plan without the ledger
LedgerFreeModes == {"full", "current_month", "current_only"}

LedgerFreePlanned == pc = "planned" /\ run.mode \in LedgerFreeModes

\* the first unit of the range of a ledger-free mode
RangeStart ==
    IF run.mode = "full" THEN DATA_START_DATE ELSE MonthStart(MonthStr(run.today0))

\* C22: in the modes full and current_period the plan is the same for every
\* ledger: for GA4 every date of the range whose table exists, for Google Ads
\* every date of the range, for Search Console the months of the lookback
\* (full) or the current month (current_only); units of the ledger are
\* planned again.
C22_FullAndCurrentIgnoreLedger ==
    LedgerFreePlanned =>
        /\ \A md2 \in PlanLedgers(src) :
              Plan(src, run.mode, Some(run.arg), md2, tables, run.today0) = run.plan
        /\ IF src = "ga4"
           THEN PlanUnits = {d \in RangeStart..run.arg : d \in tables /\ d <= run.today0}
           ELSE IF src = "ads"
           THEN PlanUnits = RangeStart..run.arg
           ELSE IF run.mode = "full"
           THEN PlanUnits = LookbackMonths(run.arg, run.today0)
           ELSE PlanUnits = {MonthStr(run.today0)}

\* a full GA4 plan that holds every date of a ledger with three dates again
C22_Witness ==
    /\ LedgerFreePlanned /\ run.mode = "full" /\ src = "ga4"
    /\ Cardinality(Extracted(src, run.md0)) = 3
    /\ Extracted(src, run.md0) \subseteq PlanUnits

\* the number of rows the first k batches of the run wrote to partitions
RECURSIVE WrittenRows(_)
WrittenRows(k) ==
    IF k = 0 THEN 0
    ELSE WrittenRows(k - 1)
         + Cardinality({d \in log[k].rows : MonthStr(d) \in log[k].wrote})

\* C23: the summary's total_rows is the number of rows the run wrote to
\* partitions; rows of a batch whose partition write was skipped or failed
\* are not counted.  Stated for the runs in which no write raised, where the
\* only rows not written are those of skipped writes.
C23_TotalRowsAreWrittenRows ==
    (run.status # "none" /\ \A k \in 1..Len(log) : ~log[k].raised) =>
        run.stats.total_rows = WrittenRows(Len(log))

\* the batches of the run whose fetch succeeded with no rows
EmptyBatches == {k \in 1..Len(log) : log[k].fetch = "ok" /\ log[k].rows = {}}

\* C25: after a batch whose fetch succeeded with an empty row set, every
\* unit of the batch is in the ledger and the batch wrote no partition, for
\* each of the three extractors.
C25_EmptyBatchMarked ==
    run.status # "none" =>
        \A k \in EmptyBatches :
            /\ SeqToSet(log[k].units) \subseteq Extracted(src, metadata)
            /\ log[k].wrote = {}

\* the batches of the run whose fetch succeeded with rows and whose writes
\* did not raise
FetchedBatches ==
    {k \in 1..Len(log) : log[k].fetch = "ok" /\ log[k].rows # {} /\ ~log[k].raised}

\* C26: after a batch whose fetch succeeded with rows, every unit of the
\* batch is in the ledger, also when write_parquet returned false because
\* the partition already had data, for each of the three extractors.
C26_MarkedWhetherOrNotWritten ==
    pc = "running" =>
        \A k \in FetchedBatches : SeqToSet(log[k].units) \subseteq Extracted(src, metadata)

\* the step that ends a run with a non-empty plan
RunEnds == pc = "running" /\ pc' = "none"

\* C27: the step that ends a run with a non-empty plan comes after the last
\* batch and stamps exactly one timestamp with the time of the run,
\* last_full_extraction in mode full and last_incremental_update in every
\* other mode; it leaves the other timestamp and the extracted units as they
\* were and saves that ledger; no other step writes the metadata file.
C27_OneStampOneSave ==
    [][/\ RunEnds =>
            /\ run.i >= Len(run.plan)
            /\ IF run.mode = "full"
               THEN /\ metadata'.last_full_extraction = Some(nruns)
                    /\ metadata'.last_incremental_update = metadata.last_incremental_update
               ELSE /\ metadata'.last_incremental_update = Some(nruns)
                    /\ metadata'.last_full_extraction = metadata.last_full_extraction
            /\ metadata'.extracted_dates = metadata.extracted_dates
            /\ metadata'.extracted_months = metadata.extracted_months
            /\ ExtractedInFile(src, file') = Extracted(src, metadata')
            /\ file'.last_full_extraction = metadata'.last_full_extraction
            /\ file'.last_incremental_update = metadata'.last_incremental_update
       /\ file' # file => RunEnds]_vars

\* a full run ended after an incremental one: the file holds the stamp of
\* each, and the incremental stamp is the older one
C27_Witness ==
    /\ run.status = "success" /\ run.mode = "full" /\ pc = "none"
    /\ file.last_full_extraction = Some(2)
    /\ file.last_incremental_update = Some(1)
    /\ ExtractedInFile(src, file) # {}

\* C29: a batch fetch brings rows of the units of the batch only: no row
\* fetched for the range [first unit of the batch, last unit of the batch]
\* is of a date that is not a unit of the batch, so a smart run fetches no
\* date of the ledger again and writes no rows of a date it did not plan.
C29_FetchOnlyPlannedUnits ==
    (run.status # "none" /\ src # "sc") =>
        \A k \in 1..Len(log) : log[k].rows \subseteq SeqToSet(log[k].units)

\* C30: starting from empty storage, after any sequence of write_parquet
\* calls every partition directory holds at most one data file, and the
\* rows of that file are rows of one call, the last call that reached the
\* directory: all of its rows when the call returned true.
C30_AtMostOneFile ==
    \A m \in PartMonths :
        /\ Len(parts[m].files) <= 1
        /\ parts[m].files # << >> =>
              /\ parts[m].exists
              /\ log[m].ret \in {"true", "raise"}
              /\ parts[m].files[1] \subseteq log[m].rows
              /\ log[m].ret = "true" => parts[m].files[1] = log[m].rows

\* a forced write replaced the file of an earlier call by its own
C30_Witness ==
    \E m \in PartMonths :
        /\ log[m].ret = "true" /\ log[m].force /\ log[m].replaced
        /\ parts[m].files = <<log[m].rows>>
        /\ \E o \in PartMonths : o # m /\ Len(parts[o].files) = 1

\* the log_message calls made for a session, in the order they were made
LoggedFor(session_id) ==
    SelectSeq(log, LAMBDA c : c.session_id = session_id /\ c.session_id # "")

\* C24: after any sequence of log_message calls, fetch_history(session_id,
\* limit) returns the last min(limit, number logged) messages logged for
\* that session and none of another session, oldest first, each with the
\* role and content it was logged with; a log_message call with an empty
\* session id stores no row.
C24_HistoryIsRecentTail ==
    /\ Cardinality(tables) = Len(SelectSeq(log, LAMBDA c : c.session_id # ""))
    /\ pc = "fetched" =>
          LET mine == LoggedFor(run.session_id)
              n == Len(mine)
              k == Min(run.limit, n)
          IN /\ Len(run.result) = k
             /\ \A j \in 1..k :
                   /\ run.result[j].role = mine[n - k + j].role
                   /\ run.result[j].content = mine[n - k + j].content

\* two messages of a session and one of another were logged, and a history
\* of limit 1 is the later message of the session alone
C24_Witness ==
    /\ pc = "fetched" /\ run.limit = 1 /\ run.session_id = "s1"
    /\ Len(LoggedFor("s1")) = 2 /\ Len(LoggedFor("s2")) = 1
    /\ log[3].session_id = "s2"
    /\ LoggedFor("s1")[1] # LoggedFor("s1")[2]
    /\ run.result = <<[role |-> LoggedFor("s1")[2].role,
                       content |-> LoggedFor("s1")[2].content]>>

RetryDone == pc \in {"returned", "raised"}

\* what C28 says of every state of a retry(max_attempts=n) wrapper and of
\* fetch_url(retries=n)
RetryBounded ==
    LET calls == Len(log)
    IN /\ calls <= nruns
       /\ \A k \in 1..(calls - 1) : ~log[k].ok /\ log[k].caught
       /\ run.sleeps <= calls
       /\ (pc = "returned" /\ run.result # "None") =>
             /\ calls >= 1 /\ log[calls].ok /\ run.result = log[calls].v
             /\ run.sleeps = calls - 1
       /\ pc = "raised" =>
             /\ src = "retry" /\ calls >= 1
             /\ ~log[calls].ok /\ run.exc = log[calls].v
             /\ run.sleeps = calls - 1
             /\ log[calls].caught => calls = nruns
       /\ (pc = "returned" /\ run.result = "None") =>
             /\ calls = nruns
             /\ \A k \in 1..calls : ~log[k].ok
             /\ src = "retry" => nruns = 0
             /\ src = "fetch_url" => run.sleeps = IF nruns = 0 THEN 0 ELSE nruns - 1

\* C28: retry is bounded and terminates: the wrapped function is called at
\* most n times, the result of the first successful call is returned with no
\* further call, and when all n calls raise the last exception is raised
\* right after the n-th call with no further sleep; fetch_url issues at most
\* `retries` requests and returns None after the last failure.
C28_RetryBoundedAndTerminates == []RetryBounded /\ <>RetryDone

\* three calls of a retry(max_attempts=3) wrapper raised, the last exception
\* is another than the first, and the wrapper raised it after two sleeps
C28_Witness ==
    /\ src = "retry" /\ nruns = 3 /\ pc = "raised"
    /\ Len(log) = 3 /\ log[1].v = "e1" /\ log[3].v = "e2"
    /\ run.exc = "e2" /\ run.sleeps = 2 /\ run.slept = 3


====
